---- MODULE Spec2Model ----
(***************************************************************************)
(* A model of PyQEA's QuantumEvAlgorithm (src/build/lib/PyQEA/qea.py).     *)
(*                                                                         *)
(* Numbers.  A real r is held as the integer r * Unit (fixed point).       *)
(* Domain bounds and the values drawn from the normal distribution lie on  *)
(* the half-integer grid (multiples of Half), so that a bound need not be  *)
(* an integer; Unit is fine enough for the mean of up to MaxLevel grid     *)
(* points to be exact.  A standard deviation is held exactly as the pair   *)
(* [m, e], standing for m * sigma_scaler^e: the update only ever divides   *)
(* or multiplies it by sigma_scaler, or zeroes it.                         *)
(***************************************************************************)
EXTENDS Integers, Sequences, FiniteSets, TLC

VARIABLES
    self,                   \* the QuantumEvAlgorithm object's attributes
    Q,                      \* the quantum individual [mu, sigma]
    pc,                     \* position of the running call
    n_samples,              \* argument of the sampling call under way
    samples,                \* the batch held by the call under way
    new_samples,            \* restricted sampling: the batch of the last retry
    best_performer,         \* training: the elite target of the iteration
    N_iterations,           \* training argument
    sample_size,            \* training argument
    i,                      \* training: loop index
    j,                      \* training: history write index
    Q_history,              \* training: history buffer of Q
    best_performer_marker,  \* training: history buffer of elite costs
    function_evaluations,   \* training: history buffer of evaluation counts
    results,                \* training: the returned dictionary
    trace                   \* observer: what the calls made so far were given and did

vars == <<self, Q, pc, n_samples, samples, new_samples, best_performer, N_iterations,
          sample_size, i, j, Q_history, best_performer_marker,
          function_evaluations, results, trace>>

----------------------------------------------------------------------------
(* Bounds of the model *)

\* largest n_dims
MaxDims == 2
\* largest elitist_level given to the constructor
MaxLevel == 2
\* largest n_samples / sample_size
MaxSamples == 3
\* largest N_iterations
MaxIterations == 2
\* largest saving_interval
MaxInterval == 2
\* number of training calls made on one object
MaxCalls == 2
\* domain bounds range over -BoundSpan .. BoundSpan + 1 halves
BoundSpan == 1

----------------------------------------------------------------------------
(* Fixed-point arithmetic *)

RECURSIVE Factorial(_)
Factorial(n) == IF n <= 1 THEN 1 ELSE n * Factorial(n - 1)

RECURSIVE Pow(_, _)
Pow(b, n) == IF n <= 0 THEN 1 ELSE b * Pow(b, n - 1)

Half == Factorial(MaxLevel)
Unit == 2 * Half

Abs(x) == IF x < 0 THEN -x ELSE x

\* a / b to the nearest representable value
FDiv(a, b) == (2 * a + b) \div (2 * b)

Dims(n) == 1 .. n

RECURSIVE SumOver(_, _)
SumOver(f, S) ==
    IF S = {} THEN 0
    ELSE LET x == CHOOSE y \in S : TRUE IN f[x] + SumOver(f, S \ {x})

\* vectors of length n over the set S
Vectors(n, S) == [Dims(n) -> S]

----------------------------------------------------------------------------
(* The caller-supplied callables *)

\* the cost function of the reference scenario, f(x) = sum_d (x_d - 3)^2,
\* for one row; the result is in Unit^2
cost_function(x) ==
    SumOver([d \in DOMAIN x |-> (x[d] - 3 * Unit) * (x[d] - 3 * Unit)], DOMAIN x)

\* constraint functions h(row), feasible iff h(row) >= 0:
\*   [kind |-> "ge", c |-> c] is x_1 - c,  [kind |-> "le", c |-> c] is c - x_1
Restriction(h, x) ==
    IF h.kind = "ge" THEN x[1] - h.c ELSE h.c - x[1]

----------------------------------------------------------------------------
(* __init__ *)

NoBest == [view |-> FALSE, val |-> <<>>]

Construct(n_dims, upper_bound, lower_bound, integral_id, sigma_scaler, mu_scaler, elitist_level, ros_flag, saving_interval, restrictions) ==
    [n_dims          |-> n_dims,
     sigma_scaler    |-> sigma_scaler,
     mu_scaler       |-> mu_scaler,
     elitist_level   |-> elitist_level,
     ros_flag        |-> ros_flag,
     saving_interval |-> saving_interval,
     upper           |-> upper_bound,
     lower           |-> lower_bound,
     integral_id     |-> integral_id,
     restrictions    |-> restrictions,
     best_of_best    |-> NoBest]

\* values a domain bound takes in the model
BoundVals == { k * Half : k \in -BoundSpan .. BoundSpan + 1 }

\* the domains with lower[d] <= upper[d] in every dimension
Domains(n) ==
    { b \in [lower : Vectors(n, BoundVals), upper : Vectors(n, BoundVals)] :
        \A d \in Dims(n) : b.lower[d] <= b.upper[d] }

----------------------------------------------------------------------------
(* quantum_individual_init *)

\* np.random.rand draws from [0, 1): here 0, 1/4, 1/2, 3/4
RandDen == 4
RandVals == 0 .. RandDen - 1

Sigma(m, e) == [m |-> m, e |-> e]

\* Q = lower + upper * rand;  Q[1, :] = upper - lower
InitialQ(s, rand) ==
    [mu    |-> [d \in Dims(s.n_dims) |->
                    s.lower[d] + FDiv(s.upper[d] * rand[d], RandDen)],
     sigma |-> [d \in Dims(s.n_dims) |-> Sigma(s.upper[d] - s.lower[d], 0)]]

\* self.best_of_best = Q[0:1, :] is a numpy view of Q's first row, not a copy
InitialBest == [view |-> TRUE, val |-> <<>>]

\* the value self.best_of_best denotes
BestOfBest(s, q) == IF s.best_of_best.view THEN q.mu ELSE s.best_of_best.val

----------------------------------------------------------------------------
(* quantum_sampling *)

\* what np.random.normal(mu, sigma) can give, before clamping: any real when
\* sigma > 0 (here the half-integer grid, reaching past every domain bound),
\* mu itself when sigma = 0
DrawSet == { k * Half : k \in -BoundSpan - 1 .. BoundSpan + 2 }

NormalValues(mu, sigma) == IF sigma.m = 0 THEN {mu} ELSE DrawSet

\* np.minimum(np.maximum(x, lower), upper)
Clamp(x, lo, hi) ==
    LET raised == IF x < lo THEN lo ELSE x
    IN IF raised > hi THEN hi ELSE raised

\* np.round: to the nearest integer, a tie to the even one
Round(x) ==
    LET q == x \div Unit
        r == x % Unit
    IN IF 2 * r < Unit THEN q * Unit
       ELSE IF 2 * r > Unit THEN (q + 1) * Unit
       ELSE IF q % 2 = 0 THEN q * Unit ELSE (q + 1) * Unit

\* one value of the batch from the value drawn for it
SampleValue(s, d, normal) ==
    LET clamped == Clamp(normal, s.lower[d], s.upper[d])
    IN IF s.integral_id[d] THEN Round(clamped) ELSE clamped

\* the batch computed from the n x n_dims matrix of normal draws
quantum_sampling(s, normal_samples) ==
    [r \in DOMAIN normal_samples |->
        [d \in Dims(s.n_dims) |-> SampleValue(s, d, normal_samples[r][d])]]

\* the matrices np.random.normal(Q[0, :], Q[1, :], size=(n, n_dims)) can give
NormalSamples(s, q, n) ==
    [1 .. n -> { x \in Vectors(s.n_dims, DrawSet \cup { q.mu[d] : d \in Dims(s.n_dims) }) :
                    \A d \in Dims(s.n_dims) : x[d] \in NormalValues(q.mu[d], q.sigma[d]) }]

\* the rows quantum_sampling can produce from the individual q
Producible(s, q) ==
    { quantum_sampling(s, ns)[1] : ns \in NormalSamples(s, q, 1) }

\* the batches quantum_sampling(Q, n) can return: the rows are drawn
\* independently of each other
Batches(s, q, n) == [1 .. n -> Producible(s, q)]

----------------------------------------------------------------------------
(* Values of the variables a specification does not use *)

Idle ==
    /\ new_samples = <<>>
    /\ best_performer = <<>>
    /\ N_iterations = 0
    /\ sample_size = 0
    /\ i = 0
    /\ j = 0
    /\ Q_history = <<>>
    /\ best_performer_marker = <<>>
    /\ function_evaluations = <<>>
    /\ results = <<>>
    /\ trace = <<>>

trainingVars == <<best_performer, N_iterations, sample_size, i, j, Q_history,
                  best_performer_marker, function_evaluations, results>>

----------------------------------------------------------------------------
(* quantum_sampling called on its own *)

SamplingObjects ==
    { Construct(n, b.upper, b.lower, id, 2, 2, 1, FALSE, 1, <<>>) :
        n \in {1}, b \in Domains(1), id \in Vectors(1, BOOLEAN) }
    \cup
    { Construct(n, b.upper, b.lower, id, 2, 2, 1, FALSE, 1, <<>>) :
        n \in {MaxDims}, b \in Domains(MaxDims), id \in Vectors(MaxDims, BOOLEAN) }

InitSampling ==
    /\ self \in SamplingObjects
    /\ \E rand \in Vectors(self.n_dims, {0, 2}) : Q = InitialQ(self, rand)
    /\ n_samples \in 1 .. MaxSamples - 1
    /\ pc = "quantum_sampling"
    /\ samples = <<>>
    /\ Idle

CallQuantumSampling ==
    /\ pc = "quantum_sampling"
    /\ samples' \in Batches(self, Q, n_samples)
    /\ pc' = "returned"
    /\ UNCHANGED <<self, Q, n_samples, new_samples, trainingVars, trace>>

NextSampling == CallQuantumSampling

SpecSampling == InitSampling /\ [][NextSampling]_vars

\* C2: quantum_sampling returns exactly n rows of n_dims values, each within
\* [lower[d], upper[d]] of its dimension d, the integral columns included
C2_SamplesInDomain ==
    pc = "returned" =>
        /\ Len(samples) = n_samples
        /\ \A r \in 1 .. Len(samples) :
              /\ DOMAIN samples[r] = Dims(self.n_dims)
              /\ \A d \in Dims(self.n_dims) :
                    /\ self.lower[d] <= samples[r][d]
                    /\ samples[r][d] <= self.upper[d]

----------------------------------------------------------------------------
(* restricted_quantum_sampling *)

\* a boolean times a number: True * h = h, False * h = 0
BoolTimes(valid, h) == IF valid THEN h ELSE 0

\* for h in self.restrictions: valid = valid * h(samples) >= 0
\* (the product is taken first, the comparison after), for one row
RECURSIVE ValidFirst(_, _, _, _)
ValidFirst(hs, k, row, valid) ==
    IF k > Len(hs) THEN valid
    ELSE ValidFirst(hs, k + 1, row, BoolTimes(valid, Restriction(hs[k], row)) >= 0)

\* for h in self.restrictions: valid_s = valid_s * h(new_samples) > 0
RECURSIVE ValidRetry(_, _, _, _)
ValidRetry(hs, k, row, valid) ==
    IF k > Len(hs) THEN valid
    ELSE ValidRetry(hs, k + 1, row, BoolTimes(valid, Restriction(hs[k], row)) > 0)

KeepFirst(s, row) == ValidFirst(s.restrictions, 1, row, TRUE)
KeepRetry(s, row) == ValidRetry(s.restrictions, 1, row, TRUE)

\* samples[valid, :]
RECURSIVE Rows(_, _, _)
Rows(batch, k, keep) ==
    IF k > Len(batch) THEN <<>>
    ELSE (IF keep[k] THEN <<batch[k]>> ELSE <<>>) \o Rows(batch, k + 1, keep)

\* the rows held after the first pass
FirstPass(s, batch) ==
    Rows(batch, 1, [k \in DOMAIN batch |-> KeepFirst(s, batch[k])])

\* np.vstack((samples, new_samples[valid_s, :]))
RetryPass(s, held, batch) ==
    held \o Rows(batch, 1, [k \in DOMAIN batch |-> KeepRetry(s, batch[k])])

\* feasible under the set: every constraint value is >= 0
Feasible(s, row) ==
    \A k \in 1 .. Len(s.restrictions) : Restriction(s.restrictions[k], row) >= 0

----------------------------------------------------------------------------
(* restricted_quantum_sampling called on its own *)

RestrictionFns == [kind : {"ge", "le"}, c : BoundVals]

RestrictionLists ==
    { <<h>> : h \in RestrictionFns } \cup
    { <<g, h>> : g \in RestrictionFns, h \in RestrictionFns }

RestrictedObjects ==
    { Construct(1, b.upper, b.lower, id, 2, 2, 1, FALSE, 1, hs) :
        b \in Domains(1), id \in Vectors(1, BOOLEAN), hs \in RestrictionLists }

InitRestricted ==
    /\ self \in RestrictedObjects
    /\ \E rand \in Vectors(self.n_dims, {0, 2}) : Q = InitialQ(self, rand)
    /\ n_samples \in 1 .. MaxSamples - 1
    /\ pc = "restricted_quantum_sampling"
    /\ samples = <<>>
    /\ Idle

\* lines 87-93: the first batch and the rows of it that are kept
CallRestricted ==
    /\ pc = "restricted_quantum_sampling"
    /\ \E batch \in Batches(self, Q, n_samples) :
           samples' = FirstPass(self, batch)
    /\ pc' = "while"
    /\ UNCHANGED <<self, Q, n_samples, new_samples, trainingVars, trace>>

\* lines 95-102: one turn of the while loop, given the batch sampled in it
RetryWith(batch) ==
    /\ pc = "while"
    /\ n_samples - Len(samples) > 0
    /\ new_samples' = batch
    /\ samples' = RetryPass(self, samples, batch)
    /\ UNCHANGED <<self, Q, pc, n_samples, trainingVars, trace>>

Retry ==
    /\ pc = "while"
    /\ n_samples - Len(samples) > 0
    /\ \E batch \in Batches(self, Q, n_samples - Len(samples)) :
           RetryWith(batch)

\* line 104
ReturnRestricted ==
    /\ pc = "while"
    /\ ~(n_samples - Len(samples) > 0)
    /\ pc' = "returned"
    /\ UNCHANGED <<self, Q, n_samples, samples, new_samples, trainingVars, trace>>

NextRestricted == CallRestricted \/ Retry \/ ReturnRestricted

SpecRestricted == InitRestricted /\ [][NextRestricted]_vars

\* a turn of the loop whose first draw gives the point p
RetryDrawing(p) ==
    /\ pc = "while"
    /\ n_samples - Len(samples) > 0
    /\ \E batch \in Batches(self, Q, n_samples - Len(samples)) :
           /\ batch[1] = p
           /\ RetryWith(batch)

\* the points the objects of the model can produce: a bound, a grid value
\* between the bounds, or either of them rounded
Points == Vectors(1, DrawSet)

\* fair sampling: the call starts and returns when it can, and every point
\* the sampler can produce is drawn again and again while the loop runs
SpecRestrictedFair ==
    /\ InitRestricted
    /\ [][NextRestricted]_vars
    /\ WF_vars(CallRestricted)
    /\ WF_vars(ReturnRestricted)
    /\ \A p \in Points : SF_vars(RetryDrawing(p))

\* C1: the batch restricted_quantum_sampling returns has exactly n rows, and
\* every row has a value >= 0 under every constraint of the set
C1_ReturnedRowsFeasible ==
    pc = "returned" =>
        /\ Len(samples) = n_samples
        /\ \A r \in 1 .. Len(samples) : Feasible(self, samples[r])

\* C7: under fair sampling, if some producible point is feasible (a value of
\* exactly 0 counting as feasible), the call eventually returns
C7_FeasibleImpliesReturn ==
    (\E p \in Producible(self, Q) : Feasible(self, p)) ~> (pc = "returned")

----------------------------------------------------------------------------
(* quantum_update *)

\* the threshold of "self.cost_function(updated_mu) > 10"
CostThreshold == 10
\* the floor of "updated_sigma < 0.001", as 1 / SigmaFloorInverse
SigmaFloorInverse == 1000

\* x < m * scaler^e and x > m * scaler^e, exactly
LessThanSigma(x, sg, scaler) ==
    IF sg.e >= 0 THEN x < sg.m * Pow(scaler, sg.e)
    ELSE x * Pow(scaler, -sg.e) < sg.m

MoreThanSigma(x, sg, scaler) ==
    IF sg.e >= 0 THEN x > sg.m * Pow(scaler, sg.e)
    ELSE x * Pow(scaler, -sg.e) > sg.m

\* sigma_decider < 1, where sigma_decider = |mu_delta| / sigma; a division
\* by sigma = 0 gives inf or nan, neither of which is < 1
DeciderBelowOne(mu_delta, sg, scaler) ==
    sg.m # 0 /\ LessThanSigma(Abs(mu_delta), sg, scaler)

\* sigma_decider > 1; inf is > 1, nan (0 / 0) is not
DeciderAboveOne(mu_delta, sg, scaler) ==
    IF sg.m = 0 THEN mu_delta # 0
    ELSE MoreThanSigma(Abs(mu_delta), sg, scaler)

\* (sigma_decider < 1) * sigma / sigma_scaler
\*     + (sigma_decider > 1) * sigma * sigma_scaler
UpdatedSigma(mu_delta, sg, scaler) ==
    IF sg.m = 0 THEN Sigma(0, 0)
    ELSE IF DeciderBelowOne(mu_delta, sg, scaler) THEN Sigma(sg.m, sg.e - 1)
    ELSE IF DeciderAboveOne(mu_delta, sg, scaler) THEN Sigma(sg.m, sg.e + 1)
    ELSE Sigma(0, 0)

\* updated_sigma < 0.001
BelowFloor(sg, scaler) ==
    IF sg.e >= 0 THEN SigmaFloorInverse * sg.m * Pow(scaler, sg.e) < Unit
    ELSE SigmaFloorInverse * sg.m < Unit * Pow(scaler, -sg.e)

\* lines 143-145: the anti-stagnation correction of one component
Corrected(mu_delta, sg, updated, scaler) ==
    IF BelowFloor(updated, scaler) /\ DeciderBelowOne(mu_delta, sg, scaler)
    THEN (IF updated.m = 0 THEN Sigma(0, 0) ELSE Sigma(updated.m, updated.e + 1))
    ELSE updated

\* updated_mu = mu + (mu_delta + mu_delta_2) / scaling
UpdatedMu(s, q, target) ==
    [d \in Dims(s.n_dims) |->
        q.mu[d] + FDiv((target[d] - q.mu[d]) + (BestOfBest(s, q)[d] - q.mu[d]),
                       s.mu_scaler)]

quantum_update(s, q, target) ==
    LET updated_mu == UpdatedMu(s, q, target)
        mu_delta == [d \in Dims(s.n_dims) |-> target[d] - q.mu[d]]
        updated_sigma ==
            [d \in Dims(s.n_dims) |->
                UpdatedSigma(mu_delta[d], q.sigma[d], s.sigma_scaler)]
        ros == cost_function(updated_mu) > CostThreshold * Unit * Unit /\ s.ros_flag
    IN [mu    |-> updated_mu,
        sigma |-> IF ros
                  THEN [d \in Dims(s.n_dims) |->
                           Corrected(mu_delta[d], q.sigma[d], updated_sigma[d],
                                     s.sigma_scaler)]
                  ELSE updated_sigma]

----------------------------------------------------------------------------
(* quantum_update called on its own *)

\* the exponent at which a sigma of the model lies below the floor
FloorExp == 12

MuVals == { -2 * Unit, 0, Unit }
TargetVals == { -2 * Unit, 0, Half, Unit, 2 * Unit }
SigmaVals == { Sigma(m, e) : m \in {Half, Unit}, e \in {-FloorExp, -1, 0, 1} }
                 \cup { Sigma(0, 0) }

UpdateObjects ==
    { Construct(1, <<2 * Unit>>, <<-2 * Unit>>, <<FALSE>>, sc, ms, 1, ros, 1, <<>>) :
        sc \in {2, 3}, ms \in {2, 100}, ros \in BOOLEAN }
    \cup
    { Construct(2, <<2 * Unit, 2 * Unit>>, <<-2 * Unit, -2 * Unit>>,
                <<FALSE, FALSE>>, 2, 2, 1, ros, 1, <<>>) : ros \in BOOLEAN }

InitUpdate ==
    /\ \E s \in UpdateObjects :
          \/ self = [s EXCEPT !.best_of_best = InitialBest]
          \/ /\ s.n_dims = 1
             /\ \E b \in Vectors(1, MuVals) :
                   self = [s EXCEPT !.best_of_best = [view |-> FALSE, val |-> b]]
    /\ Q \in [mu : Vectors(self.n_dims, MuVals),
              sigma : Vectors(self.n_dims, SigmaVals)]
    /\ best_performer \in Vectors(self.n_dims, TargetVals)
    /\ pc = "quantum_update"
    /\ n_samples = 0
    /\ samples = <<>>
    /\ new_samples = <<>>
    /\ N_iterations = 0
    /\ sample_size = 0
    /\ i = 0
    /\ j = 0
    /\ Q_history = <<>>
    /\ best_performer_marker = <<>>
    /\ function_evaluations = <<>>
    /\ results = <<>>
    /\ trace = <<>>

\* trace keeps the individual the call was given
CallQuantumUpdate ==
    /\ pc = "quantum_update"
    /\ Q' = quantum_update(self, Q, best_performer)
    /\ trace' = [Q |-> Q]
    /\ pc' = "returned"
    /\ UNCHANGED <<self, n_samples, samples, new_samples, trainingVars>>

NextUpdate == CallQuantumUpdate

SpecUpdate == InitUpdate /\ [][NextUpdate]_vars

\* C4: with every input sigma > 0, sigma_scaler > 1 and the anti-stagnation
\* flag off, every output sigma is > 0: sigma / sigma_scaler when
\* |elite_target - mean| < sigma, sigma * sigma_scaler otherwise
C4_SigmaStaysPositive ==
    (/\ pc = "returned"
     /\ ~self.ros_flag
     /\ self.sigma_scaler > 1
     /\ \A d \in Dims(self.n_dims) : trace.Q.sigma[d].m > 0)
    => \A d \in Dims(self.n_dims) :
          LET old == trace.Q.sigma[d]
              delta == Abs(best_performer[d] - trace.Q.mu[d])
          IN /\ Q.sigma[d].m > 0
             /\ Q.sigma[d] = IF LessThanSigma(delta, old, self.sigma_scaler)
                             THEN Sigma(old.m, old.e - 1)
                             ELSE Sigma(old.m, old.e + 1)

----------------------------------------------------------------------------
(* elitist_sample_evaluation *)

\* cost = self.cost_function(samples): one cost per row
Costs(batch) == [r \in DOMAIN batch |-> cost_function(batch[r])]

\* np.argsort(cost, axis=0): an order of the rows by ascending cost; the
\* default sort is not stable, so rows of equal cost come in any order
SortOrders(cost) ==
    { order \in [DOMAIN cost -> DOMAIN cost] :
        /\ \A a, b \in DOMAIN cost : a # b => order[a] # order[b]
        /\ \A a, b \in DOMAIN cost : a < b => cost[order[a]] <= cost[order[b]] }

\* a slice taken one place too far, sort_order[1:elitist_level + 1]
FirstRows_Shifted(order, level) ==
    { order[k] : k \in { a \in DOMAIN order : 1 < a /\ a <= level + 1 } }

\* the slice sort_order[0:elitist_level]
FirstRows(order, level) ==
    { order[k] : k \in { a \in DOMAIN order : a <= level } }

\* np.mean(samples[rows], axis=0)
MeanOfRows(batch, rows, n_dims) ==
    [d \in Dims(n_dims) |->
        FDiv(SumOver([r \in rows |-> batch[r][d]], rows), Cardinality(rows))]

elitist_sample_evaluation(s, batch, sort_order) ==
    MeanOfRows(batch, FirstRows(sort_order, s.elitist_level), s.n_dims)

----------------------------------------------------------------------------
(* elitist_sample_evaluation called on its own *)

\* the values of a batch: fewer per dimension the more dimensions there are
EliteVals(n) ==
    IF n = 1 THEN { k * Half : k \in 4 .. 8 }
    ELSE IF n = 2 THEN { 2 * Unit, 5 * Half, 4 * Unit }
    ELSE { 5 * Half, 4 * Unit }

EliteObjects ==
    { Construct(n, [d \in Dims(n) |-> 4 * Unit], [d \in Dims(n) |-> 0],
                [d \in Dims(n) |-> FALSE], 2, 2, level, FALSE, 1, <<>>) :
        n \in 1 .. MaxDims, level \in 1 .. MaxLevel }

InitElite ==
    /\ self \in EliteObjects
    /\ \E n \in self.elitist_level + 1 .. MaxSamples :
          samples \in [1 .. n -> Vectors(self.n_dims, EliteVals(self.n_dims))]
    /\ Q = InitialQ(self, [d \in Dims(self.n_dims) |-> 0])
    /\ pc = "elitist_sample_evaluation"
    /\ n_samples = 0
    /\ Idle

\* trace keeps the batch the call was given
CallElitist ==
    /\ pc = "elitist_sample_evaluation"
    /\ \E sort_order \in SortOrders(Costs(samples)) :
          best_performer' = elitist_sample_evaluation(self, samples, sort_order)
    /\ trace' = [samples |-> samples]
    /\ pc' = "returned"
    /\ UNCHANGED <<self, Q, n_samples, samples, new_samples, N_iterations,
                   sample_size, i, j, Q_history, best_performer_marker,
                   function_evaluations, results>>

NextElite == CallElitist

SpecElite == InitElite /\ [][NextElite]_vars

\* the sets of k rows of the batch with the lowest cost: no row left out
\* costs less than a row taken
LowestRows(batch, k) ==
    { S \in SUBSET DOMAIN batch :
        /\ Cardinality(S) = k
        /\ \A a \in S, b \in DOMAIN batch \ S :
              cost_function(batch[a]) <= cost_function(batch[b]) }

\* C5: for a batch of N rows and 1 <= elitist_level < N, the returned point
\* is the coordinate-wise arithmetic mean of exactly elitist_level rows of
\* lowest cost, and the batch is left as it was given
C5_EliteIsMeanOfLowest ==
    pc = "returned" =>
        /\ samples = trace.samples
        /\ DOMAIN best_performer = Dims(self.n_dims)
        /\ \E S \in LowestRows(trace.samples, self.elitist_level) :
              \A d \in Dims(self.n_dims) :
                  best_performer[d] * self.elitist_level =
                      SumOver([r \in S |-> trace.samples[r][d]], S)

\* a call has averaged several rows of a batch whose rows all differ in
\* cost, and the point returned is none of the rows
C5_Witness ==
    /\ pc = "returned"
    /\ self.elitist_level > 1
    /\ \A a, b \in DOMAIN samples :
          a # b => cost_function(samples[a]) # cost_function(samples[b])
    /\ \A a \in DOMAIN samples : samples[a] # best_performer

----------------------------------------------------------------------------
(* training *)

\* np.zeros of the history buffers' length, 1 + int(N_iterations / saving_interval)
BufferLength(s, n_iterations) == 1 + (n_iterations \div s.saving_interval)

Zeros(n) == [k \in 1 .. n |-> 0]

\* the final iteration left at the configured level
LevelAt_Unforced(s, index, n_iterations) == s.elitist_level

\* lines 188-189: if i > N_iterations - 1: self.elitist_level = 1
LevelAt(s, index, n_iterations) ==
    IF index > n_iterations - 1 THEN 1 ELSE s.elitist_level

\* lines 193-196: best_of_best becomes the elite target when that costs less
BestAfter(s, q, target) ==
    IF cost_function(target) < cost_function(BestOfBest(s, q))
    THEN [view |-> FALSE, val |-> target]
    ELSE s.best_of_best

\* a snapshot taken at the end of each interval instead of its start
SavesAt_IntervalEnd(s, index) == (index + 1) % s.saving_interval = 0

\* np.mod(i, self.saving_interval) == 0
SavesAt(s, index) == index % s.saving_interval = 0

\* lines 164-180: the assertion, the initial individual, the empty buffers
EnterTraining(n_iterations, size, rand) ==
    /\ N_iterations' = n_iterations
    /\ sample_size' = size
    /\ n_samples' = 0
    /\ samples' = <<>>
    /\ new_samples' = <<>>
    /\ best_performer' = <<>>
    /\ results' = <<>>
    /\ i' = 0
    /\ j' = 0
    /\ IF size > self.elitist_level
       THEN /\ Q' = InitialQ(self, rand)
            /\ self' = [self EXCEPT !.best_of_best = InitialBest]
            /\ Q_history' = Zeros(BufferLength(self, n_iterations))
            /\ best_performer_marker' = Zeros(BufferLength(self, n_iterations))
            /\ function_evaluations' = Zeros(BufferLength(self, n_iterations))
            /\ pc' = "for"
       ELSE /\ UNCHANGED <<Q, self>>
            /\ Q_history' = <<>>
            /\ best_performer_marker' = <<>>
            /\ function_evaluations' = <<>>
            /\ pc' = "AssertionError"

\* the first call of training on the object
Training ==
    /\ pc = "training"
    /\ \E rand \in Vectors(self.n_dims, RandVals) :
          EnterTraining(N_iterations, sample_size, rand)
    /\ trace' = [trace EXCEPT !.calls = 1, !.levels = <<>>, !.saved = <<>>,
                              !.asserted = sample_size]

\* a later call of training on the same object
TrainingAgain ==
    /\ pc \in {"done", "AssertionError"}
    /\ trace.calls < MaxCalls
    /\ \E size \in 2 .. MaxSamples, rand \in Vectors(self.n_dims, RandVals) :
          /\ EnterTraining(N_iterations, size, rand)
          /\ trace' = [trace EXCEPT !.calls = @ + 1, !.levels = <<>>,
                                    !.saved = <<>>, !.asserted = size]

\* lines 183-186: the batch of iteration i
Sample ==
    /\ pc = "for"
    /\ n_samples' = sample_size
    /\ \E batch \in Batches(self, Q, sample_size) :
          IF self.restrictions # <<>>
          THEN /\ samples' = FirstPass(self, batch)
               /\ pc' = "sampling"
          ELSE /\ samples' = batch
               /\ pc' = "sampled"
    /\ UNCHANGED <<self, Q, new_samples, trainingVars, trace>>

\* one turn of restricted_quantum_sampling's while loop
SampleRetry ==
    /\ pc = "sampling"
    /\ n_samples - Len(samples) > 0
    /\ \E batch \in Batches(self, Q, n_samples - Len(samples)) :
          /\ new_samples' = batch
          /\ samples' = RetryPass(self, samples, batch)
    /\ UNCHANGED <<self, Q, pc, n_samples, trainingVars, trace>>

\* restricted_quantum_sampling returns to training
SampleReturn ==
    /\ pc = "sampling"
    /\ ~(n_samples - Len(samples) > 0)
    /\ pc' = "sampled"
    /\ UNCHANGED <<self, Q, n_samples, samples, new_samples, trainingVars, trace>>

\* lines 188-205 and the loop's step: the rest of iteration i
Iterate ==
    /\ pc = "sampled"
    /\ \E sort_order \in SortOrders(Costs(samples)) :
          LET levelled == [self EXCEPT !.elitist_level = LevelAt(self, i, N_iterations)]
              target == elitist_sample_evaluation(levelled, samples, sort_order)
              bested == [levelled EXCEPT !.best_of_best = BestAfter(levelled, Q, target)]
              updated == quantum_update(bested, Q, target)
          IN /\ self' = bested
             /\ best_performer' = target
             /\ Q' = updated
             /\ trace' = [trace EXCEPT !.levels = Append(@, levelled.elitist_level),
                                       !.saved = IF SavesAt(self, i)
                                                 THEN Append(@, <<j, i>>) ELSE @]
             /\ IF SavesAt(self, i)
                THEN IF j < Len(Q_history)
                     THEN /\ Q_history' = [Q_history EXCEPT ![j + 1] = updated]
                          /\ best_performer_marker' =
                                [best_performer_marker EXCEPT ![j + 1] = cost_function(target)]
                          /\ function_evaluations' =
                                [function_evaluations EXCEPT ![j + 1] = i * sample_size]
                          /\ j' = j + 1
                          /\ pc' = IF i < N_iterations THEN "for" ELSE "end"
                     ELSE /\ UNCHANGED <<Q_history, best_performer_marker,
                                         function_evaluations, j>>
                          /\ pc' = "IndexError"
                ELSE /\ UNCHANGED <<Q_history, best_performer_marker,
                                    function_evaluations, j>>
                     /\ pc' = IF i < N_iterations THEN "for" ELSE "end"
             /\ i' = IF pc' = "for" THEN i + 1 ELSE i
    /\ UNCHANGED <<n_samples, samples, new_samples, N_iterations, sample_size, results>>

\* lines 218-236: the result
Return ==
    /\ pc = "end"
    /\ results' = [cost |-> cost_function(best_performer), min |-> best_performer]
    /\ pc' = "done"
    /\ UNCHANGED <<self, Q, n_samples, samples, new_samples, best_performer,
                   N_iterations, sample_size, i, j, Q_history,
                   best_performer_marker, function_evaluations, trace>>

\* the objects trained: a domain below 0, one above 0 with its dimension
\* integral or not, and one with a constraint
TrainObjects ==
    { Construct(1, v[1].upper, v[1].lower, <<v[2]>>, 2, 2, level, FALSE, interval, v[3]) :
        v \in { <<[lower |-> <<-Half>>, upper |-> <<0>>], FALSE, <<>> >>,
                <<[lower |-> <<Half>>, upper |-> <<Unit>>], FALSE, <<>> >>,
                <<[lower |-> <<Half>>, upper |-> <<Unit>>], TRUE, <<>> >>,
                <<[lower |-> <<-Half>>, upper |-> <<0>>], FALSE,
                  <<[kind |-> "ge", c |-> 0]>> >> },
        level \in 1 .. MaxLevel, interval \in 1 .. MaxInterval }

\* trace keeps, of the object and the call under way: the elitist_level the
\* constructor was given, the number of calls of training, the sample_size
\* the call was entered with, the elitist_level each iteration used, and the
\* (slot, iteration) of each snapshot
Init ==
    /\ self \in TrainObjects
    /\ N_iterations \in 0 .. MaxIterations
    /\ sample_size \in 2 .. MaxSamples
    /\ pc = "training"
    /\ Q = <<>>
    /\ n_samples = 0
    /\ samples = <<>>
    /\ new_samples = <<>>
    /\ best_performer = <<>>
    /\ i = 0
    /\ j = 0
    /\ Q_history = <<>>
    /\ best_performer_marker = <<>>
    /\ function_evaluations = <<>>
    /\ results = <<>>
    /\ trace = [configured |-> self.elitist_level, calls |-> 0, asserted |-> 0,
                levels |-> <<>>, saved |-> <<>>]

Next ==
    \/ Training
    \/ TrainingAgain
    \/ Sample
    \/ SampleRetry
    \/ SampleReturn
    \/ Iterate
    \/ Return

Spec == Init /\ [][Next]_vars

----------------------------------------------------------------------------
(* Properties of a training run *)

Running == pc \in {"for", "sampling", "sampled", "end", "done"}

\* C3: within a run the cost of best_of_best never rises from one iteration
\* to the next, and its value changes only to an elite target that costs
\* strictly less (quantum_update leaves it as it is)
C3_BestCostNonIncreasing ==
    [][(pc = "sampled" /\ pc' \in {"for", "end"}) =>
          LET before == BestOfBest(self, Q)
              after == BestOfBest(self', Q')
          IN /\ cost_function(after) <= cost_function(before)
             /\ after # before =>
                   /\ after = best_performer'
                   /\ cost_function(best_performer') < cost_function(before)]_vars

\* C6: the result's position is the elite target of iteration N_iterations,
\* a single row of that iteration's batch of minimal cost among its rows,
\* and the result's cost is the cost function's value there
C6_ResultIsFinalElite ==
    pc = "done" =>
        /\ i = N_iterations
        /\ results.min = best_performer
        /\ results.cost = cost_function(results.min)
        /\ \E r \in DOMAIN samples :
              /\ results.min = samples[r]
              /\ \A other \in DOMAIN samples :
                    cost_function(samples[r]) <= cost_function(samples[other])

\* a run of an object configured to average several rows has returned a row
\* of a final batch of mixed costs, while best_of_best costs less
C6_Witness ==
    /\ pc = "done"
    /\ trace.calls = 1
    /\ trace.configured > 1
    /\ N_iterations > 0
    /\ \E a, b \in DOMAIN samples :
          cost_function(samples[a]) < cost_function(samples[b])
    /\ cost_function(BestOfBest(self, Q)) < results.cost

\* C8: iterations before the last use the configured elitist_level, it is
\* the configured value again once training has returned, and every call
\* checks sample_size against it
C8_LevelRestoredAfterTraining ==
    /\ pc = "done" => self.elitist_level = trace.configured
    /\ Running =>
          /\ trace.asserted > trace.configured
          /\ \A k \in 1 .. Len(trace.levels) :
                k - 1 < N_iterations => trace.levels[k] = trace.configured
    /\ pc = "AssertionError" => trace.asserted <= trace.configured

\* C9: a run makes N_iterations + 1 iterations and writes one snapshot at
\* each index that is a multiple of saving_interval, in increasing order;
\* the write index stays within the buffers of length
\* 1 + floor(N_iterations / saving_interval), every slot is written at
\* completion, and the snapshot of iteration i records i * sample_size
C9_SnapshotSchedule ==
    /\ pc # "IndexError"
    /\ Running =>
          LET done_iterations == Len(trace.levels)
              length == 1 + (N_iterations \div self.saving_interval)
          IN /\ Len(function_evaluations) = length
             /\ Len(Q_history) = length
             /\ Len(best_performer_marker) = length
             /\ j <= length
             /\ j = Len(trace.saved)
             /\ j = Cardinality({ index \in 0 .. done_iterations - 1 :
                                    index % self.saving_interval = 0 })
             /\ \A k \in 1 .. j :
                   /\ trace.saved[k] = <<k - 1, (k - 1) * self.saving_interval>>
                   /\ function_evaluations[k] =
                         (k - 1) * self.saving_interval * sample_size
             /\ done_iterations <= N_iterations + 1
             /\ pc \in {"end", "done"} =>
                   /\ done_iterations = N_iterations + 1
                   /\ j = length

\* a run has completed whose snapshots are not taken at every iteration and
\* whose last iteration takes none
C9_Witness ==
    /\ pc = "done"
    /\ self.saving_interval > 1
    /\ N_iterations % self.saving_interval # 0
    /\ j = Len(function_evaluations)
    /\ j < N_iterations + 1

\* C10: with mu_scaler >= 2 the mean lies within [lower[d], upper[d]] in
\* every dimension throughout a run, and the initial sigma is
\* upper[d] - lower[d]
C10_MeanInDomain ==
    (Running /\ self.mu_scaler >= 2) =>
        \A d \in Dims(self.n_dims) :
            /\ self.lower[d] <= Q.mu[d]
            /\ Q.mu[d] <= self.upper[d]
            /\ (pc = "for" /\ i = 0) =>
                  Q.sigma[d] = Sigma(self.upper[d] - self.lower[d], 0)

====
